---- MODULE Spec2Model ----
(***************************************************************************)
(* Missionaries-and-cannibals search engine (src/src/main.rs).             *)
(*                                                                         *)
(* The model follows main/tests: solve::<Vec<State>> is called first, then *)
(* solve::<BinaryHeap<State>> with the same parameters.  Inside solve the  *)
(* `while` loop is one step per pop and the nested `for` loops are one     *)
(* step per candidate boat load.                                           *)
(*                                                                         *)
(* Sequences are 1-based here and 0-based in Rust: position p of a Rust    *)
(* vector is position p+1 of the sequence that models it.                  *)
(***************************************************************************)
EXTENDS Integers, Sequences, FiniteSets, TLC

\* ------------------------------------------------------------------ bounds
MaxCannibals ==
    4

MaxMissionaries ==
    4

MaxCapacity ==
    3

MaxCount ==
    2

\* the puzzles explored under fairness
MaxFairCannibals ==
    3

MaxFairMissionaries ==
    3

MaxFairCapacity ==
    2

\* ------------------------------------------------- compiled-in parameters
MainCannibals ==
    10

MainMissionaries ==
    20

MainBoatCapacity ==
    3

VARIABLES
    cannibals_num,      \* solve parameter
    missionaries_num,   \* solve parameter
    boat_capacity,      \* solve parameter
    T,                  \* type parameter of the running solve: "Vec" | "BinaryHeap"
    pc,                 \* "while" | "for" | "return" | "done"; "validate" | "validated" for a direct call
    queue,              \* the frontier, as the backing vector of Vec / BinaryHeap
    history,            \* HashMap<State, Vec<BoatMovement>>
    state,              \* the configuration popped by the current iteration
    cannibals_boat,     \* outer for-loop variable
    missionaries_boat,  \* inner for-loop variable
    ret,                \* value returned by the solve call that just returned
    result_vec,         \* main: result of solve::<Vec<State>>
    result_heap,        \* main: result of solve::<BinaryHeap<State>>
    prop,               \* the ValidateCannibalMissionaryBalanceProp last built
    balance,            \* what validate_cannibal_missionary_balance returned for it
    pushed              \* log: the configurations the running call has pushed, in order

vars ==
    << cannibals_num, missionaries_num, boat_capacity, T, pc, queue, history,
       state, cannibals_boat, missionaries_boat, ret, result_vec, result_heap,
       prop, balance, pushed >>

\* --------------------------------------------------------------- values
State(c, m, b) ==
    [cannibals_left |-> c, missionaries_left |-> m, boat_left |-> b]

BoatMovement(cb, mb, mr) ==
    [cannibals_boat |-> cb, missionaries_boat |-> mb, move_right |-> mr]

ValidateCannibalMissionaryBalanceProp(cl, ml, cr, mr, cb, mb) ==
    [cannibals_left |-> cl, missionaries_left |-> ml,
     cannibals_right |-> cr, missionaries_right |-> mr,
     cannibals_boat |-> cb, missionaries_boat |-> mb]

\* Option<Vec<BoatMovement>>
None ==
    [tag |-> "None", path |-> << >>]

Some(p) ==
    [tag |-> "Some", path |-> p]

\* a result slot of main that has not been assigned yet
Unset ==
    [tag |-> "Unset", path |-> << >>]

min(a, b) ==
    IF a <= b THEN a ELSE b
\* mutations of the safety predicate: a strict comparison on the left bank,
\* the right bank left unchecked, the cargo left unchecked
validate_strict_left(p) ==
    /\ (p.cannibals_left < p.missionaries_left \/ p.missionaries_left = 0)
    /\ (p.cannibals_right <= p.missionaries_right \/ p.missionaries_right = 0)
    /\ (p.cannibals_boat <= p.missionaries_boat \/ p.missionaries_boat = 0)

validate_without_right(p) ==
    /\ (p.cannibals_left <= p.missionaries_left \/ p.missionaries_left = 0)
    /\ (p.cannibals_boat <= p.missionaries_boat \/ p.missionaries_boat = 0)

validate_without_boat(p) ==
    /\ (p.cannibals_left <= p.missionaries_left \/ p.missionaries_left = 0)
    /\ (p.cannibals_right <= p.missionaries_right \/ p.missionaries_right = 0)

\* ------------------------------------------------------ safety predicate
validate_cannibal_missionary_balance(p) ==
    LET left_side_balance ==
            p.cannibals_left <= p.missionaries_left \/ p.missionaries_left = 0
        right_side_balance ==
            p.cannibals_right <= p.missionaries_right \/ p.missionaries_right = 0
        boat_balance ==
            p.cannibals_boat <= p.missionaries_boat \/ p.missionaries_boat = 0
    IN  left_side_balance /\ right_side_balance /\ boat_balance

\* ------------------------------------------------------------- ordering
score(cannibals_left, missionaries_left) ==
    cannibals_left + missionaries_left

\* i64::cmp
cmp(a, b) ==
    IF a < b THEN "Less" ELSE IF a = b THEN "Equal" ELSE "Greater"

\* Ordering::reverse
reverse(o) ==
    IF o = "Less" THEN "Greater" ELSE IF o = "Greater" THEN "Less" ELSE "Equal"

\* mutation: the comparison of the scores is not reversed
partial_cmp_not_reversed(self, other) ==
    cmp(score(self.cannibals_left, self.missionaries_left),
        score(other.cannibals_left, other.missionaries_left))

\* impl PartialOrd for State
partial_cmp(self, other) ==
    reverse(cmp(score(self.cannibals_left, self.missionaries_left),
                score(other.cannibals_left, other.missionaries_left)))

\* the operator `<=` on State, as PartialOrd provides it from partial_cmp
le(a, b) ==
    partial_cmp(a, b) \in {"Less", "Equal"}

\* ------------------------------------------------------------ frontier
swap(data, i, j) ==
    [data EXCEPT ![i] = data[j], ![j] = data[i]]

\* BinaryHeap::sift_up(start, pos): the element at pos rises while it is
\* greater than its parent.
RECURSIVE sift_up(_, _, _)
sift_up(data, start, pos) ==
    IF pos > start
    THEN LET parent == pos \div 2
         IN  IF le(data[pos], data[parent])
             THEN data
             ELSE sift_up(swap(data, pos, parent), start, parent)
    ELSE data

\* BinaryHeap::sift_down_to_bottom(pos): the element at pos sinks along the
\* greater children to a leaf, then rises back with sift_up.
RECURSIVE sink(_, _)
sink(data, pos) ==
    LET child == 2 * pos
    IN  IF child + 1 <= Len(data)
        THEN LET c == IF le(data[child], data[child + 1]) THEN child + 1 ELSE child
             IN  sink(swap(data, pos, c), c)
        ELSE IF child = Len(data)
             THEN << swap(data, pos, child), child >>
             ELSE << data, pos >>

sift_down_to_bottom(data, pos) ==
    LET r == sink(data, pos)
    IN  sift_up(r[1], pos, r[2])

\* impl StateQueue for Vec<State>
VecPush(q, s) ==
    Append(q, s)

\* mutation: the first element is taken
VecPopItem_front(q) ==
    q[1]

VecPopItem(q) ==
    q[Len(q)]
\* mutation: the last element is read but not removed
VecPopRest_peek(q) ==
    q


VecPopRest(q) ==
    SubSeq(q, 1, Len(q) - 1)

\* impl StateQueue for BinaryHeap<State>
HeapPush(q, s) ==
    sift_up(Append(q, s), 1, Len(q) + 1)

HeapPopItem(q) ==
    q[1]
\* mutation: the last slot is dropped without moving its element to the root
HeapPopRest_no_swap(q) ==
    SubSeq(q, 1, Len(q) - 1)


HeapPopRest(q) ==
    IF Len(q) = 1
    THEN << >>
    ELSE sift_down_to_bottom([SubSeq(q, 1, Len(q) - 1) EXCEPT ![1] = q[Len(q)]], 1)

\* StateQueue, dispatched on the type parameter
push(t, q, s) ==
    IF t = "Vec" THEN VecPush(q, s) ELSE HeapPush(q, s)

pop_item(t, q) ==
    IF t = "Vec" THEN VecPopItem(q) ELSE HeapPopItem(q)

pop_rest(t, q) ==
    IF t = "Vec" THEN VecPopRest(q) ELSE HeapPopRest(q)

is_empty(q) ==
    Len(q) = 0

\* ------------------------------------------------------------- HashMap
contains_key(h, k) ==
    k \in DOMAIN h

\* history.get(&state).map(|value| value.clone())
get(h, k) ==
    IF k \in DOMAIN h THEN Some(h[k]) ELSE None

insert(h, k, v) ==
    [x \in (DOMAIN h) \cup {k} |-> IF x = k THEN v ELSE h[x]]

EmptyMap ==
    [x \in {} |-> << >>]
\* mutation: the empty load is not skipped
is_empty_load_never(cb, mb) ==
    FALSE

\* ---------------------------------------------------------------- solve
\* the boat cargo of a candidate load is skipped when nobody is aboard
is_empty_load(cb, mb) ==
    cb + mb = 0
\* mutation: the goal test forgets the side of the boat
is_goal_any_side(s) ==
    s.cannibals_left = 0 /\ s.missionaries_left = 0

\* the goal test on the popped configuration
is_goal(s) ==
    s.cannibals_left = 0 /\ s.missionaries_left = 0 /\ ~s.boat_left

cannibals_right(s) ==
    cannibals_num - s.cannibals_left

missionaries_right(s) ==
    missionaries_num - s.missionaries_left

\* mutation: the bound is taken from the left bank whatever the side of the boat
max_cannibals_on_boat_left(s) ==
    min(boat_capacity, s.cannibals_left)

max_cannibals_on_boat(s) ==
    IF s.boat_left
    THEN min(boat_capacity, s.cannibals_left)
    ELSE min(boat_capacity, cannibals_right(s))
\* mutation: the seats taken by the cannibals are not subtracted
max_missionaries_on_boat_full(s, cb) ==
    IF s.boat_left
    THEN min(boat_capacity, s.missionaries_left)
    ELSE min(boat_capacity, missionaries_num - s.missionaries_left)


max_missionaries_on_boat(s, cb) ==
    IF s.boat_left
    THEN min(boat_capacity - cb, s.missionaries_left)
    ELSE min(boat_capacity - cb, missionaries_right(s))

\* mutation: the load is taken from the left bank whatever the side of the boat
update_counts_from_left(left, right, boat, boat_left) ==
    << left - boat, right + boat >>

\* fn update_counts(left, right, boat, boat_left) -> (left', right')
update_counts(left, right, boat, boat_left) ==
    IF boat_left
    THEN << left - boat, right + boat >>
    ELSE << left + boat, right - boat >>

\* the struct handed to validate_cannibal_missionary_balance for the load
\* (cb, mb) leaving configuration s
next_prop(s, cb, mb) ==
    LET nc == update_counts(s.cannibals_left, cannibals_right(s), cb, s.boat_left)
        nm == update_counts(s.missionaries_left, missionaries_right(s), mb, s.boat_left)
    IN  ValidateCannibalMissionaryBalanceProp(nc[1], nm[1], nc[2], nm[2], cb, mb)

next_state(s, cb, mb) ==
    LET p == next_prop(s, cb, mb)
    IN  State(p.cannibals_left, p.missionaries_left, ~s.boat_left)

\* mutation: the history of the current configuration is not cloned
next_history_without_base(h, s, cb, mb) ==
    << BoatMovement(cb, mb, s.boat_left) >>

\* mutation: the direction of the move is taken from the arrival side
next_history_arrival_side(h, s, cb, mb) ==
    LET base == IF contains_key(h, s) THEN h[s] ELSE << >>
    IN  Append(base, BoatMovement(cb, mb, ~s.boat_left))

\* history of the successor: the current configuration's history (empty
\* when it has none) with the move appended
next_history(h, s, cb, mb) ==
    LET base == IF contains_key(h, s) THEN h[s] ELSE << >>
    IN  Append(base, BoatMovement(cb, mb, s.boat_left))
\* mutation: the test is inverted
already_visited_inverted(h, s) ==
    ~contains_key(h, s)

\* mutation: the test is missing
already_visited_never(h, s) ==
    FALSE

\* whether the successor is discarded as already discovered
already_visited(h, s) ==
    contains_key(h, s)

\* first statements of solve::<t>: the initial configuration is pushed, the
\* visited map is empty
SolveEntry(t) ==
    LET s0 == State(cannibals_num, missionaries_num, TRUE)
    IN  /\ T' = t
        /\ state' = s0
        /\ history' = EmptyMap
        /\ queue' = push(t, << >>, s0)
        /\ pushed' = << s0 >>
        /\ pc' = "while"
        /\ cannibals_boat' = 0
        /\ missionaries_boat' = 0
        /\ ret' = Unset

\* moving on to the next candidate load: the inner range 0..=max is never
\* empty (max_missionaries_on_boat >= 0 for cb <= max_cannibals_on_boat), so
\* the next load is (cb, mb + 1), else (cb + 1, 0), else the loops are over
Continue ==
    IF missionaries_boat + 1 <= max_missionaries_on_boat(state, cannibals_boat)
    THEN /\ missionaries_boat' = missionaries_boat + 1
         /\ UNCHANGED << cannibals_boat, pc >>
    ELSE IF cannibals_boat + 1 <= max_cannibals_on_boat(state)
         THEN /\ cannibals_boat' = cannibals_boat + 1
              /\ missionaries_boat' = 0
              /\ UNCHANGED pc
         ELSE /\ pc' = "while"
              /\ UNCHANGED << cannibals_boat, missionaries_boat >>

Params ==
    << cannibals_num, missionaries_num, boat_capacity >>

MainResults ==
    << result_vec, result_heap >>

\* while !queue.is_empty() fails: return None
WhileExit ==
    /\ pc = "while"
    /\ is_empty(queue)
    /\ ret' = None
    /\ pc' = "return"
    /\ UNCHANGED << Params, T, pushed, queue, history, state, cannibals_boat,
                    missionaries_boat, MainResults, prop, balance >>

\* pop, goal test passes: return history.get(&state)
PopGoal ==
    /\ pc = "while"
    /\ ~is_empty(queue)
    /\ LET s == pop_item(T, queue)
       IN  /\ is_goal(s)
           /\ state' = s
           /\ queue' = pop_rest(T, queue)
           /\ ret' = get(history, s)
           /\ pc' = "return"
    /\ UNCHANGED << Params, T, pushed, history, cannibals_boat, missionaries_boat,
                    MainResults, prop, balance >>

\* pop, goal test fails: enter the for loops
PopExpand ==
    /\ pc = "while"
    /\ ~is_empty(queue)
    /\ LET s == pop_item(T, queue)
       IN  /\ ~is_goal(s)
           /\ state' = s
           /\ queue' = pop_rest(T, queue)
           /\ cannibals_boat' = 0
           /\ missionaries_boat' = 0
           /\ pc' = "for"
    /\ UNCHANGED << Params, T, pushed, history, ret, MainResults, prop, balance >>

\* loop body: the empty load is skipped
SkipEmptyLoad ==
    /\ pc = "for"
    /\ is_empty_load(cannibals_boat, missionaries_boat)
    /\ Continue
    /\ UNCHANGED << Params, T, pushed, queue, history, state, ret, MainResults,
                    prop, balance >>

\* loop body: the load leaves a bank or the boat unbalanced
SkipUnbalanced ==
    /\ pc = "for"
    /\ ~is_empty_load(cannibals_boat, missionaries_boat)
    /\ LET p == next_prop(state, cannibals_boat, missionaries_boat)
       IN  /\ prop' = p
           /\ balance' = validate_cannibal_missionary_balance(p)
           /\ ~validate_cannibal_missionary_balance(p)
    /\ Continue
    /\ UNCHANGED << Params, T, pushed, queue, history, state, ret, MainResults >>

\* loop body: the successor is already in the visited map
SkipVisited ==
    /\ pc = "for"
    /\ ~is_empty_load(cannibals_boat, missionaries_boat)
    /\ LET p == next_prop(state, cannibals_boat, missionaries_boat)
       IN  /\ prop' = p
           /\ balance' = validate_cannibal_missionary_balance(p)
           /\ validate_cannibal_missionary_balance(p)
    /\ already_visited(history, next_state(state, cannibals_boat, missionaries_boat))
    /\ Continue
    /\ UNCHANGED << Params, T, pushed, queue, history, state, ret, MainResults >>

\* loop body: the successor is recorded with its history, then pushed
Discover ==
    /\ pc = "for"
    /\ ~is_empty_load(cannibals_boat, missionaries_boat)
    /\ LET p == next_prop(state, cannibals_boat, missionaries_boat)
           n == next_state(state, cannibals_boat, missionaries_boat)
       IN  /\ prop' = p
           /\ balance' = validate_cannibal_missionary_balance(p)
           /\ validate_cannibal_missionary_balance(p)
           /\ ~already_visited(history, n)
           /\ history' = insert(history, n,
                  next_history(history, state, cannibals_boat, missionaries_boat))
           /\ queue' = push(T, queue, n)
           /\ pushed' = Append(pushed, n)
    /\ Continue
    /\ UNCHANGED << Params, T, state, ret, MainResults >>

\* ----------------------------------------------------------------- main
\* let result_vec = solve::<Vec<State>>(..); then solve::<BinaryHeap<State>>
MainCallHeap ==
    /\ pc = "return"
    /\ T = "Vec"
    /\ result_vec' = ret
    /\ SolveEntry("BinaryHeap")
    /\ UNCHANGED << Params, result_heap, prop, balance >>

\* let result_heap = solve::<BinaryHeap<State>>(..)
MainFinish ==
    /\ pc = "return"
    /\ T = "BinaryHeap"
    /\ result_heap' = ret
    /\ pc' = "done"
    /\ UNCHANGED << Params, T, pushed, queue, history, state, cannibals_boat,
                    missionaries_boat, ret, result_vec, prop, balance >>

\* the caller has chosen the parameters and called solve::<Vec<State>>
InitWith(c, m, k) ==
    /\ cannibals_num = c
    /\ missionaries_num = m
    /\ boat_capacity = k
    /\ T = "Vec"
    /\ state = State(c, m, TRUE)
    /\ history = EmptyMap
    /\ queue = push("Vec", << >>, State(c, m, TRUE))
    /\ pushed = << State(c, m, TRUE) >>
    /\ pc = "while"
    /\ cannibals_boat = 0
    /\ missionaries_boat = 0
    /\ ret = Unset
    /\ result_vec = Unset
    /\ result_heap = Unset
    /\ prop = ValidateCannibalMissionaryBalanceProp(0, 0, 0, 0, 0, 0)
    /\ balance = TRUE

\* the calls explored: every small puzzle, and the reference run of main
SmallCalls ==
    (0..MaxCannibals) \X (0..MaxMissionaries) \X (0..MaxCapacity)

Calls ==
    SmallCalls \cup {<< MainCannibals, MainMissionaries, MainBoatCapacity >>}

Init ==
    \E p \in Calls : InitWith(p[1], p[2], p[3])

Next ==
    \/ WhileExit
    \/ PopGoal
    \/ PopExpand
    \/ SkipEmptyLoad
    \/ SkipUnbalanced
    \/ SkipVisited
    \/ Discover
    \/ MainCallHeap
    \/ MainFinish

Spec ==
    Init /\ [][Next]_vars

\* the scheduler never stops a running call: the program is sequential
FairCalls ==
    (0..MaxFairCannibals) \X (0..MaxFairMissionaries) \X (0..MaxFairCapacity)

InitFair ==
    \E p \in FairCalls : InitWith(p[1], p[2], p[3])

FairSpec ==
    InitFair /\ [][Next]_vars /\ WF_vars(Next)

\* ------------------------------------ the safety predicate on its own
\* a direct call of validate_cannibal_missionary_balance, as the unit test
\* makes it, on any sixtuple of counts up to MaxCount
Counts ==
    0..MaxCount

InitValidate ==
    /\ \E cl \in Counts, ml \in Counts, cr \in Counts, mr \in Counts,
          cb \in Counts, mb \in Counts :
            prop = ValidateCannibalMissionaryBalanceProp(cl, ml, cr, mr, cb, mb)
    /\ balance = TRUE
    /\ pc = "validate"
    /\ cannibals_num = 0
    /\ missionaries_num = 0
    /\ boat_capacity = 0
    /\ T = "Vec"
    /\ state = State(0, 0, TRUE)
    /\ history = EmptyMap
    /\ queue = << >>
    /\ pushed = << >>
    /\ cannibals_boat = 0
    /\ missionaries_boat = 0
    /\ ret = Unset
    /\ result_vec = Unset
    /\ result_heap = Unset

Validate ==
    /\ pc = "validate"
    /\ balance' = validate_cannibal_missionary_balance(prop)
    /\ pc' = "validated"
    /\ UNCHANGED << Params, T, pushed, queue, history, state, cannibals_boat,
                    missionaries_boat, ret, MainResults, prop >>

NextValidate ==
    Validate

SpecValidate ==
    InitValidate /\ [][NextValidate]_vars

\* ======================================================== properties
\* what the claims call safe: cannibals do not outnumber missionaries where
\* missionaries are present
BankSafe(c, m) ==
    c <= m \/ m = 0

InitialConfig ==
    State(cannibals_num, missionaries_num, TRUE)

GoalConfig ==
    State(0, 0, FALSE)

\* the configuration after carrying (cb, mb) across from configuration s
After(s, cb, mb) ==
    IF s.boat_left
    THEN State(s.cannibals_left - cb, s.missionaries_left - mb, FALSE)
    ELSE State(s.cannibals_left + cb, s.missionaries_left + mb, TRUE)

\* both banks of configuration s and the cargo (cb, mb) are safe
AllSafe(s, cb, mb) ==
    /\ BankSafe(s.cannibals_left, s.missionaries_left)
    /\ BankSafe(cannibals_num - s.cannibals_left, missionaries_num - s.missionaries_left)
    /\ BankSafe(cb, mb)

\* the legal trips out of s: a non-empty load within capacity, taken from
\* the bank the boat is on, leaving banks and boat safe
LegalTrips(s) ==
    LET dc == IF s.boat_left THEN s.cannibals_left
                             ELSE cannibals_num - s.cannibals_left
        dm == IF s.boat_left THEN s.missionaries_left
                             ELSE missionaries_num - s.missionaries_left
    IN  { After(s, l[1], l[2]) :
            l \in { x \in (0..boat_capacity) \X (0..boat_capacity) :
                      /\ x[1] + x[2] >= 1
                      /\ x[1] + x[2] <= boat_capacity
                      /\ x[1] <= dc
                      /\ x[2] <= dm
                      /\ AllSafe(After(s, x[1], x[2]), x[1], x[2]) } }

RECURSIVE ReachableFrom(_)
ReachableFrom(S) ==
    LET S2 == S \cup UNION { LegalTrips(s) : s \in S }
    IN  IF S2 = S THEN S ELSE ReachableFrom(S2)

GoalReachable ==
    GoalConfig \in ReachableFrom({InitialConfig})

\* replaying path from s: every move leaves banks and cargo safe, and the
\* last configuration is the goal
RECURSIVE ValidPathFrom(_, _)
ValidPathFrom(s, path) ==
    IF path = << >>
    THEN s = GoalConfig
    ELSE LET mv == Head(path)
             n == After(s, mv.cannibals_boat, mv.missionaries_boat)
         IN  /\ AllSafe(n, mv.cannibals_boat, mv.missionaries_boat)
             /\ ValidPathFrom(n, Tail(path))

\* C1: solve returns Some exactly when the goal configuration is reachable
\* from the initial one by legal trips, under both disciplines.
C1_SomeIffReachable ==
    pc = "return" => ((ret.tag = "Some") <=> GoalReachable)

C1_Witness ==
    /\ pc = "return"
    /\ T = "BinaryHeap"
    /\ Params = << 3, 3, 2 >>
    /\ ret.tag = "Some"
    /\ GoalReachable

\* C2: a returned path replays from the initial configuration through safe
\* configurations and cargoes only, and ends in the goal (0, 0, right).
C2_PathValid ==
    (pc = "return" /\ ret.tag = "Some") => ValidPathFrom(InitialConfig, ret.path)

C2_Witness ==
    /\ pc = "return"
    /\ T = "Vec"
    /\ ret.tag = "Some"
    /\ Len(ret.path) >= 5
    /\ ValidPathFrom(InitialConfig, ret.path)

\* C3: for the same parameters the Vec search and the BinaryHeap search
\* both return Some or both return None.
C3_SolvabilityAgreement ==
    pc = "done" => ((result_vec.tag = "Some") <=> (result_heap.tag = "Some"))

C3_Witness ==
    /\ pc = "done"
    /\ result_vec.tag = "Some"
    /\ result_heap.tag = "Some"
    /\ result_vec.path # result_heap.path

\* C4: with nobody to carry and a capacity of at least 1, solve returns
\* Some with an empty path.
C4_ZeroPeopleEmptyPath ==
    (pc = "return" /\ cannibals_num = 0 /\ missionaries_num = 0 /\ boat_capacity >= 1)
        => ret = Some(<< >>)

\* C5: validate_cannibal_missionary_balance is true exactly when the left
\* bank, the right bank and the boat each have no more cannibals than
\* missionaries or no missionaries at all.
C5_ThreeClauseRule ==
    pc = "validated" =>
        (balance <=>
            /\ (prop.cannibals_left <= prop.missionaries_left \/ prop.missionaries_left = 0)
            /\ (prop.cannibals_right <= prop.missionaries_right \/ prop.missionaries_right = 0)
            /\ (prop.cannibals_boat <= prop.missionaries_boat \/ prop.missionaries_boat = 0))

C5_Witness ==
    /\ pc = "validated"
    /\ prop = ValidateCannibalMissionaryBalanceProp(2, 1, 2, 1, 1, 1)
    /\ balance = FALSE

\* C6: with more cannibals than missionaries and at least one missionary,
\* solve returns None and the configuration with everyone on the right is
\* never recorded, queued or returned.
EveryoneRight(s) ==
    s.cannibals_left = 0 /\ s.missionaries_left = 0

C6_ImbalanceUnsolvable ==
    (pc \in {"while", "for", "return", "done"}
        /\ cannibals_num > missionaries_num /\ missionaries_num > 0) =>
        /\ pc = "return" => ret = None
        /\ pc = "done" => (result_vec = None /\ result_heap = None)
        /\ \A s \in DOMAIN history : ~EveryoneRight(s)
        /\ \A i \in 1..Len(queue) : ~EveryoneRight(queue[i])

C6_Witness ==
    /\ pc = "return"
    /\ T = "BinaryHeap"
    /\ Params = << 4, 3, 2 >>
    /\ ret = None
    /\ Cardinality(DOMAIN history) >= 3

\* C7: no move of a returned path is an empty load.
C7_NoEmptyLoads ==
    (pc = "return" /\ ret.tag = "Some") =>
        \A i \in 1..Len(ret.path) :
            ret.path[i].cannibals_boat + ret.path[i].missionaries_boat >= 1

C7_Witness ==
    /\ pc = "return"
    /\ ret.tag = "Some"
    /\ Len(ret.path) >= 3
    /\ \E i \in 1..Len(ret.path) :
          ret.path[i].cannibals_boat + ret.path[i].missionaries_boat = 1

\* C8: every call of solve returns, under either discipline: both calls of
\* main come to an end.
C8_Terminates ==
    <>(pc = "done")

C8_Witness ==
    /\ pc = "done"
    /\ Params = << 3, 2, 2 >>
    /\ result_vec = None
    /\ result_heap = None
    /\ Cardinality(DOMAIN history) >= 5

\* the visited map never holds more than the 2*(c+1)*(m+1) configurations
VisitedBounded ==
    Cardinality(DOMAIN history) <= 2 * (cannibals_num + 1) * (missionaries_num + 1)

\* C9: solve returns None only from the loop test on an empty frontier; when
\* it returns from the goal test, the value is Some of the history recorded
\* for the popped goal configuration.
C9_NoneOnlyWhenExhausted ==
    [][(pc = "while" /\ pc' = "return") =>
          IF is_empty(queue)
          THEN ret' = None
          ELSE /\ state' = GoalConfig
               /\ state' \in DOMAIN history
               /\ ret' = Some(history[state'])]_vars

C9_Witness ==
    /\ pc = "return"
    /\ T = "Vec"
    /\ ~is_empty(queue)
    /\ state = GoalConfig
    /\ state \in DOMAIN history
    /\ ret = Some(history[state])

\* C10: for 10 cannibals, 20 missionaries and a boat of 3, both searches
\* return Some.
C10_ReferenceRunSolved ==
    Params = << MainCannibals, MainMissionaries, MainBoatCapacity >> =>
        /\ pc = "return" => ret.tag = "Some"
        /\ pc = "done" => (result_vec.tag = "Some" /\ result_heap.tag = "Some")

C10_Witness ==
    /\ Params = << MainCannibals, MainMissionaries, MainBoatCapacity >>
    /\ pc = "done"
    /\ result_vec.tag = "Some"
    /\ result_heap.tag = "Some"

\* the steps and states of a running or just returned call of solve
InSolve ==
    pc \in {"while", "for", "return", "done"}

\* C11: every configuration, the initial one included, is pushed onto the
\* frontier at most once during one call of solve.
C11_PushedAtMostOnce ==
    InSolve =>
        \A i \in 1..Len(pushed) : \A j \in 1..Len(pushed) :
            i # j => pushed[i] # pushed[j]

\* C12: within one call a recorded history never changes and is never
\* removed; a step records at most one configuration, one that had no entry,
\* and that configuration is in the map by the time it is pushed.
C12_FirstDiscoveryWins ==
    [][(pc \in {"while", "for"}) =>
          /\ \A s \in DOMAIN history :
                s \in DOMAIN history' /\ history'[s] = history[s]
          /\ history' # history =>
                \E n \in (DOMAIN history') \ (DOMAIN history) :
                    /\ DOMAIN history' = (DOMAIN history) \cup {n}
                    /\ pushed' = Append(pushed, n)
          /\ \A i \in 2..Len(pushed') : pushed'[i] \in DOMAIN history']_vars

\* a safe trip leads to a configuration that already has a history
C12_Witness ==
    /\ pc = "for"
    /\ cannibals_boat + missionaries_boat >= 1
    /\ AllSafe(After(state, cannibals_boat, missionaries_boat),
               cannibals_boat, missionaries_boat)
    /\ After(state, cannibals_boat, missionaries_boat) \in DOMAIN history
    /\ Cardinality(DOMAIN history) >= 4

\* the number of people left on the left bank in configuration s
LeftBank(s) ==
    s.cannibals_left + s.missionaries_left

\* C13: under BinaryHeap every pop takes out of the frontier a configuration
\* whose left-bank population is minimal among those in the frontier.
C13_HeapPopsMinimum ==
    [][(pc = "while" /\ T = "BinaryHeap" /\ Len(queue) > 0) =>
          /\ \E i \in 1..Len(queue) : queue[i] = state'
          /\ \A i \in 1..Len(queue) : LeftBank(state') <= LeftBank(queue[i])
          /\ Len(queue') = Len(queue) - 1]_vars

\* just popped, with larger configurations still waiting
C13_Witness ==
    /\ pc = "for"
    /\ T = "BinaryHeap"
    /\ cannibals_boat = 0
    /\ missionaries_boat = 0
    /\ Len(queue) >= 3
    /\ \E i \in 1..Len(queue) : LeftBank(queue[i]) > LeftBank(state)
    /\ \E i \in 1..Len(queue) : LeftBank(queue[i]) = LeftBank(state)

\* the configurations met when replaying path from the initial
\* configuration: element k + 1 is the configuration after k moves
RECURSIVE TraceFrom(_, _, _)
TraceFrom(path, i, acc) ==
    IF i > Len(path)
    THEN acc
    ELSE TraceFrom(path, i + 1,
             Append(acc, After(acc[Len(acc)], path[i].cannibals_boat,
                                              path[i].missionaries_boat)))

Trace(path) ==
    TraceFrom(path, 1, << InitialConfig >>)

\* C14: the history recorded for a configuration replays from the initial
\* configuration to exactly that configuration, through configurations and
\* cargoes that are all safe.
C14_HistoriesReplay ==
    InSolve =>
        \A s \in DOMAIN history :
            LET h == history[s]
                tr == Trace(h)
            IN  /\ tr[Len(tr)] = s
                /\ \A i \in 1..Len(h) :
                      AllSafe(tr[i + 1], h[i].cannibals_boat, h[i].missionaries_boat)

C14_Witness ==
    /\ pc = "for"
    /\ T = "Vec"
    /\ Cardinality(DOMAIN history) >= 6
    /\ \E s \in DOMAIN history :
          /\ Len(history[s]) >= 4
          /\ Trace(history[s])[Len(history[s]) + 1] = s

\* the people of each role on the bank the boat of configuration s is at
DepartureCannibals(s) ==
    IF s.boat_left THEN s.cannibals_left ELSE cannibals_num - s.cannibals_left

DepartureMissionaries(s) ==
    IF s.boat_left THEN s.missionaries_left ELSE missionaries_num - s.missionaries_left

\* C15: every recorded move carries at most boat_capacity people, and of
\* each role at most those on the departure bank of the configuration it
\* was taken from.
C15_LoadsWithinLimits ==
    InSolve =>
        \A s \in DOMAIN history :
            LET h == history[s]
                tr == Trace(h)
            IN  \A i \in 1..Len(h) :
                    /\ h[i].cannibals_boat + h[i].missionaries_boat <= boat_capacity
                    /\ h[i].cannibals_boat <= DepartureCannibals(tr[i])
                    /\ h[i].missionaries_boat <= DepartureMissionaries(tr[i])

\* a recorded move that fills the boat and empties a role on its bank
C15_Witness ==
    /\ InSolve
    /\ boat_capacity >= 2
    /\ \E s \in DOMAIN history :
          \E i \in 1..Len(history[s]) :
              LET mv == history[s][i]
                  from == Trace(history[s])[i]
              IN  /\ i >= 2
                  /\ mv.cannibals_boat + mv.missionaries_boat = boat_capacity
                  /\ mv.cannibals_boat = DepartureCannibals(from)
                  /\ mv.cannibals_boat >= 1

\* the left-bank counts of s lie between zero and the totals
WithinTotals(s) ==
    /\ 0 <= s.cannibals_left
    /\ s.cannibals_left <= cannibals_num
    /\ 0 <= s.missionaries_left
    /\ s.missionaries_left <= missionaries_num

\* C16: every configuration in the frontier or in the visited map has
\* left-bank counts between zero and the totals, so total - left is never
\* negative.
C16_CountsWithinTotals ==
    InSolve =>
        /\ \A i \in 1..Len(queue) : WithinTotals(queue[i])
        /\ \A s \in DOMAIN history : WithinTotals(s)
        /\ \A i \in 1..Len(pushed) : WithinTotals(pushed[i])

\* both extremes are recorded: a bank emptied of a role, and a configuration
\* with all cannibals back on the left
C16_Witness ==
    /\ InSolve
    /\ cannibals_num >= 2
    /\ missionaries_num >= 2
    /\ Len(queue) >= 2
    /\ \E s \in DOMAIN history : s.cannibals_left = 0 /\ ~s.boat_left
    /\ \E s \in DOMAIN history : s.cannibals_left = cannibals_num /\ s.boat_left

\* C17: replaying a returned path never meets a configuration twice; in
\* particular it never comes back to the initial configuration.
C17_ReturnedPathAcyclic ==
    (pc = "return" /\ ret.tag = "Some") =>
        LET tr == Trace(ret.path)
        IN  \A i \in 1..Len(tr) : \A j \in 1..Len(tr) :
                i # j => tr[i] # tr[j]

\* a path is returned by a call in which the initial configuration was
\* recorded again on the way
C17_Witness ==
    /\ pc = "return"
    /\ ret.tag = "Some"
    /\ Len(ret.path) >= 5
    /\ InitialConfig \in DOMAIN history
    /\ \A i \in 2..(Len(ret.path) + 1) : Trace(ret.path)[i] # InitialConfig

\* C18: the moves of a recorded history alternate direction, starting left
\* to right; the history is of odd length exactly when the boat of its
\* configuration is on the right; a returned path is of odd length and ends
\* with a move left to right.
C18_DirectionsAlternate ==
    InSolve =>
        /\ \A s \in DOMAIN history :
              /\ \A i \in 1..Len(history[s]) :
                    history[s][i].move_right = (i % 2 = 1)
              /\ s.boat_left = (Len(history[s]) % 2 = 0)
        /\ (pc = "return" /\ ret.tag = "Some") =>
              /\ Len(ret.path) % 2 = 1
              /\ ret.path[Len(ret.path)].move_right

\* a returned path of several moves, in a call that recorded histories of
\* even length too
C18_Witness ==
    /\ pc = "return"
    /\ ret.tag = "Some"
    /\ Len(ret.path) >= 3
    /\ ~ret.path[2].move_right
    /\ \E s \in DOMAIN history : s.boat_left /\ Len(history[s]) >= 2

\* the position in the push log of the latest push of configuration c
LastPush(c) ==
    CHOOSE i \in 0..Len(pushed) :
        /\ i > 0 => pushed[i] = c
        /\ \A j \in (i + 1)..Len(pushed) : pushed[j] # c

\* C19: under Vec every pop takes out of the frontier the configuration
\* pushed most recently among those in it, so what the current expansion
\* pushed goes before what was waiting.
C19_VecPopsLatest ==
    [][(pc = "while" /\ T = "Vec" /\ Len(queue) > 0) =>
          /\ \E i \in 1..Len(queue) : queue[i] = state'
          /\ \A i \in 1..Len(queue) : LastPush(queue[i]) <= LastPush(state')
          /\ Len(queue') = Len(queue) - 1]_vars

\* just popped a successor of the last expansion, older ones still waiting
C19_Witness ==
    /\ pc = "for"
    /\ T = "Vec"
    /\ cannibals_boat = 0
    /\ missionaries_boat = 0
    /\ Len(queue) >= 3
    /\ LastPush(state) = Len(pushed)
    /\ \A i \in 1..Len(queue) : 0 < LastPush(queue[i]) /\ LastPush(queue[i]) < LastPush(state)

====
